---------------------------- MODULE Spec2Model ----------------------------
(***************************************************************************)
(* A model of projet_pyspark.py: the flight snapshot is cleaned, joined    *)
(* against the airport, aircraft and airline reference files, and the      *)
(* seven queries Q1..Q6, QB are evaluated over the enriched DataFrame.     *)
(*                                                                         *)
(* A DataFrame is a sequence of rows; a row is a function from column      *)
(* identifiers to SQL values.  A SQL value is Null or Some(v).  A SQL      *)
(* boolean is three-valued: Some(TRUE), Some(FALSE) or Null.               *)
(***************************************************************************)
EXTENDS Integers, Sequences, FiniteSets, TLC

VARIABLES
    flights,        \* what FlightRadar24API().get_flights() returned
    airports_csv,   \* content of airports.csv
    planes_dat,     \* content of planes.dat
    airlines_dat,   \* content of airlines.dat
    pc,             \* position in the script, lines 140-163 and 307-339
    df,             \* module-level df, reassigned by lines 140-146
    df_active,      \* module-level df_active, line 148
    df_continent,   \* module-level df_continent, line 163
    views,          \* the session's temp-view catalog: name -> DataFrame
    done,           \* the query cells that have been run
    raised,         \* the query cells that ended in an AnalysisException
    df_q1, df_q2, df_q3, df_q4, df_q5, df_q6, df_qb

vars == <<flights, airports_csv, planes_dat, airlines_dat, pc, df, df_active,
          df_continent, views, done, raised,
          df_q1, df_q2, df_q3, df_q4, df_q5, df_q6, df_qb>>

inputs == <<flights, airports_csv, planes_dat, airlines_dat>>
results == <<df_q1, df_q2, df_q3, df_q4, df_q5, df_q6, df_qb>>

---------------------------------------------------------------------------
(* SQL values and three-valued logic                                       *)

Null == <<>>
Some(v) == <<v>>

SqlNot(b) == IF b = Null THEN Null ELSE Some(~b[1])

SqlOr(a, b) ==
    IF a = Some(TRUE) \/ b = Some(TRUE) THEN Some(TRUE)
    ELSE IF a = Null \/ b = Null THEN Null
    ELSE Some(FALSE)

SqlAnd(a, b) ==
    IF a = Some(FALSE) \/ b = Some(FALSE) THEN Some(FALSE)
    ELSE IF a = Null \/ b = Null THEN Null
    ELSE Some(TRUE)

\* Column.__eq__ : null when either side is null
SqlEq(a, b) == IF a = Null \/ b = Null THEN Null ELSE Some(a[1] = b[1])

\* the SQL comparison  a > n  against a literal
SqlGt(a, n) == IF a = Null THEN Null ELSE Some(a[1] > n)

\* Column.isin(list) : null for a null value
isin(a, list) == IF a = Null THEN Null ELSE Some(a[1] \in list)

\* Column.isNotNull() : never null itself
isNotNull(a) == Some(a # Null)

---------------------------------------------------------------------------
(* DataFrame primitives                                                    *)

Range(s) == {s[i] : i \in 1..Len(s)}

\* DataFrame.filter / SQL WHERE, given the condition's value on each row :
\* keeps the rows whose condition is true (rows whose condition is false or
\* null are removed)
Filter(d, cond) ==
    LET F[i \in 0..Len(d)] ==
            IF i = 0 THEN <<>>
            ELSE IF cond[i] = Some(TRUE) THEN Append(F[i - 1], d[i]) ELSE F[i - 1]
    IN  F[Len(d)]

RECURSIVE Concat(_)
Concat(ss) == IF ss = <<>> THEN <<>> ELSE Head(ss) \o Concat(Tail(ss))

Merge(l, r) ==
    [c \in DOMAIN l \cup DOMAIN r |-> IF c \in DOMAIN l THEN l[c] ELSE r[c]]

NullRow(cols) == [c \in cols |-> Null]

\* The visible name of a column.  After a join on an expression both sides'
\* columns are kept, so two columns of the result can carry one name; the
\* right-hand side's copy is identified here by a qualified identifier.
ColName(c) ==
    CASE c = "df_aircrafts.aircraft_code" -> "aircraft_code"
      [] c = "df_airlines.airline_iata" -> "airline_iata"
      [] c = "df_airlines.airline_icao" -> "airline_icao"
      [] c = "df_continent.continent" -> "continent"
      [] OTHER -> c

\* DataFrame.drop(name) : removes every column that carries the name
DropRow(r, names) == [c \in {x \in DOMAIN r : ColName(x) \notin names} |-> r[c]]
Drop(d, names) == [i \in 1..Len(d) |-> DropRow(d[i], names)]

RenameRow(r, old, new) ==
    IF old \notin DOMAIN r THEN r
    ELSE [c \in (DOMAIN r \ {old}) \cup {new} |-> IF c = new THEN r[old] ELSE r[c]]
withColumnRenamed(d, old, new) == [i \in 1..Len(d) |-> RenameRow(d[i], old, new)]

SelectRow(r, cols) == [c \in cols |-> r[c]]
Select(d, cols) == [i \in 1..Len(d) |-> SelectRow(d[i], cols)]

\* The value of an equality join condition on each pair of rows:
\* left[lcol] == right[rcol]
OnEq(left, lcol, right, rcol) ==
    [i \in 1..Len(left) |-> [j \in 1..Len(right) |->
        SqlEq(left[i][lcol], right[j][rcol])]]

\* left.join(right, on, how='left'), given the condition's value on each
\* pair of rows : every left row is kept; it is paired with each right row
\* for which the condition is true, or with nulls when there is none
LeftJoin(left, right, on, rightCols) ==
    Concat([i \in 1..Len(left) |->
        LET m == Filter(right, on[i])
        IN  IF m = <<>> THEN <<Merge(left[i], NullRow(rightCols))>>
            ELSE [j \in 1..Len(m) |-> Merge(left[i], m[j])]])

\* left.join(right, on) : the inner join
InnerJoin(left, right, on) ==
    Concat([i \in 1..Len(left) |->
        LET m == Filter(right, on[i])
        IN  [j \in 1..Len(m) |-> Merge(left[i], m[j])]])

---------------------------------------------------------------------------
(* clean_dataframe, lines 41-47                                            *)

Placeholders == {"NaN", "N/A"}

\* a variant that tests the codes with a null-safe comparison, so that a
\* record with an absent code passes
clean_dataframe_KeepsAbsent(d) ==
    SelectSeq(d, LAMBDA r :
        /\ SqlNot(isin(r["destination_airport_iata"], Placeholders)) # Some(FALSE)
        /\ SqlNot(isin(r["origin_airport_iata"], Placeholders)) # Some(FALSE))

clean_dataframe(d) ==
    LET d1 == Filter(d, [i \in 1..Len(d) |->
                  SqlNot(isin(d[i]["destination_airport_iata"], Placeholders))])
    IN  Filter(d1, [i \in 1..Len(d1) |->
                  SqlNot(isin(d1[i]["origin_airport_iata"], Placeholders))])

---------------------------------------------------------------------------
(* add_distance_dataframe, lines 51-100                                    *)

\* approximate radius of earth in km
R == 6373

\* cos of a multiple of 90 degrees; the model's coordinates lie on that grid
Cos90(deg) ==
    LET m == deg % 360
    IN  CASE m = 0 -> 1 [] m = 180 -> -1 [] OTHER -> 0

\* The value the Python function distance returns, with its Python type.
\* On the grid, 2a = 2 sin^2(dlat/2) + 2 cos(lat1) cos(lat2) sin^2(dlon/2)
\* is 0, 1 or 2, and c = 2 atan2(sqrt(a), sqrt(1-a)) is 0, 90 or 180
\* degrees; R * c is given in whole kilometres (pi taken as 355/113).
distance(lat1, lon1, lat2, lon2) ==
    IF lat1 = Null \/ lon1 = Null \/ lat2 = Null \/ lon2 = Null
    THEN [pytype |-> "int", val |-> -1]
    ELSE LET dlon == lon2[1] - lon1[1]
             dlat == lat2[1] - lat1[1]
             twice_a == (1 - Cos90(dlat))
                        + Cos90(lat1[1]) * Cos90(lat2[1]) * (1 - Cos90(dlon))
             c_deg == 90 * twice_a
         IN  [pytype |-> "float", val |-> (R * c_deg * 355) \div (113 * 180)]

\* udf(f, FloatType()) : the value the Python function returned is converted
\* to the declared column type.  A Python float becomes the float; a Python
\* value of another type (an int among them) is not converted and the column
\* is null for that row.
FloatType(py) == IF py.pytype = "float" THEN Some(py.val) ELSE Null

distance_udf(lat1, lon1, lat2, lon2) == FloatType(distance(lat1, lon1, lat2, lon2))

\* Column.cast("float") of a string column read from a csv file
CastFloat(s) ==
    IF s = Null THEN Null
    ELSE CASE s[1] = "0" -> Some(0)
           [] s[1] = "90" -> Some(90)
           [] s[1] = "180" -> Some(180)
           [] s[1] = "-90" -> Some(-90)
           [] OTHER -> Null

DescriptiveColumns == {"id", "ident", "type", "name", "elevation_ft",
    "iso_region", "municipality", "scheduled_service", "gps_code",
    "local_code", "home_link", "wikipedia_link", "keywords", "iso_country"}

\* lines 77-83 : the airport catalog after the load-time normalisation
df_airport(csv) ==
    LET a1 == Drop(csv, DescriptiveColumns)
        a2 == Filter(a1, [i \in 1..Len(a1) |->
                  SqlAnd(isNotNull(a1[i]["iata_code"]), isNotNull(a1[i]["continent"]))])
    IN  [i \in 1..Len(a2) |->
            [a2[i] EXCEPT !["latitude_deg"] = CastFloat(a2[i]["latitude_deg"]),
                          !["longitude_deg"] = CastFloat(a2[i]["longitude_deg"])]]

\* lines 85-88
df_airport_destination(csv) ==
    withColumnRenamed(withColumnRenamed(withColumnRenamed(withColumnRenamed(
        df_airport(csv),
        "iata_code", "destination_airport_iata"),
        "latitude_deg", "destination_latitude_deg"),
        "longitude_deg", "destination_longitude_deg"),
        "continent", "destination_airport_continent")

\* lines 90-93
df_airport_origin(csv) ==
    withColumnRenamed(withColumnRenamed(withColumnRenamed(withColumnRenamed(
        df_airport(csv),
        "iata_code", "origin_airport_iata"),
        "latitude_deg", "origin_latitude_deg"),
        "longitude_deg", "origin_longitude_deg"),
        "continent", "origin_airport_continent")

DestinationColumns == {"destination_latitude_deg", "destination_longitude_deg",
                       "destination_airport_continent"}
OriginColumns == {"origin_latitude_deg", "origin_longitude_deg",
                  "origin_airport_continent"}

\* line 95 : the join on the destination code
JoinDestination(d, csv) ==
    LET a == df_airport_destination(csv)
    IN  LeftJoin(d, a,
                 OnEq(d, "destination_airport_iata", a, "destination_airport_iata"),
                 DestinationColumns)

\* line 96 : the join on the origin code
JoinOrigin(d, csv) ==
    LET a == df_airport_origin(csv)
    IN  LeftJoin(d, a,
                 OnEq(d, "origin_airport_iata", a, "origin_airport_iata"),
                 OriginColumns)

\* line 98
WithDistance(d) ==
    [i \in 1..Len(d) |-> Merge(d[i], [distance |->
        distance_udf(d[i]["origin_latitude_deg"], d[i]["origin_longitude_deg"],
                     d[i]["destination_latitude_deg"],
                     d[i]["destination_longitude_deg"])])]

add_distance_dataframe(d, csv) ==
    WithDistance(JoinOrigin(JoinDestination(d, csv), csv))

---------------------------------------------------------------------------
(* add_aircrafts_dataframe, lines 103-112                                  *)

df_aircrafts(dat) ==
    LET a1 == Drop(dat, {"_c1"})
        a2 == withColumnRenamed(withColumnRenamed(a1, "_c0", "aircraft_name"),
                                "_c2", "aircraft_code")
    IN  Filter(a2, [i \in 1..Len(a2) |-> isNotNull(a2[i]["aircraft_code"])])

\* The join is on an expression, so the catalog's aircraft_code column is
\* kept beside the flight's own.
add_aircrafts_dataframe(d, dat) ==
    LET a == withColumnRenamed(df_aircrafts(dat),
                               "aircraft_code", "df_aircrafts.aircraft_code")
    IN  LeftJoin(d, a,
                 OnEq(d, "aircraft_code", a, "df_aircrafts.aircraft_code"),
                 {"aircraft_name", "df_aircrafts.aircraft_code"})

---------------------------------------------------------------------------
(* add_airlines_dataframe, lines 114-127                                   *)

df_airlines(dat) ==
    LET a1 == Select(dat, {"_c1", "_c3", "_c4"})
        a2 == withColumnRenamed(withColumnRenamed(withColumnRenamed(a1,
                  "_c1", "airline_name"), "_c3", "airline_iata"),
                  "_c4", "airline_icao")
    IN  Filter(a2, [i \in 1..Len(a2) |->
            SqlOr(isNotNull(a2[i]["airline_iata"]), isNotNull(a2[i]["airline_icao"]))])

\* line 124 : the join on (icao = icao) OR (iata = iata); both sides'
\* airline_iata and airline_icao columns are in its result
JoinAirlines(d, dat) ==
    LET a == withColumnRenamed(withColumnRenamed(df_airlines(dat),
                 "airline_iata", "df_airlines.airline_iata"),
                 "airline_icao", "df_airlines.airline_icao")
    IN  LeftJoin(d, a,
                 [i \in 1..Len(d) |-> [j \in 1..Len(a) |->
                     SqlOr(SqlEq(d[i]["airline_icao"], a[j]["df_airlines.airline_icao"]),
                           SqlEq(d[i]["airline_iata"], a[j]["df_airlines.airline_iata"]))]],
                 {"airline_name", "df_airlines.airline_iata",
                  "df_airlines.airline_icao"})

\* line 125 : drop by name
DropAirlineCodes(d) == Drop(Drop(d, {"airline_icao"}), {"airline_iata"})

add_airlines_dataframe(d, dat) == DropAirlineCodes(JoinAirlines(d, dat))

---------------------------------------------------------------------------
(* get_active_flights, lines 132-136                                       *)

get_active_flights(d) ==
    Filter(d, [i \in 1..Len(d) |-> SqlEq(d[i]["on_ground"], Some(0))])

\* lines 157-163
ContinentData ==
    << [continent_name |-> Some("North America"), continent |-> Some("NA")],
       [continent_name |-> Some("South America"), continent |-> Some("SA")],
       [continent_name |-> Some("Europe"), continent |-> Some("EU")],
       [continent_name |-> Some("Asia"), continent |-> Some("AS")],
       [continent_name |-> Some("Africa"), continent |-> Some("AF")],
       [continent_name |-> Some("Australia"), continent |-> Some("OC")] >>

---------------------------------------------------------------------------
(* Aggregation primitives used by the queries                              *)

RECURSIVE Distinct(_)
Distinct(s) ==
    IF s = <<>> THEN <<>>
    ELSE LET rest == Distinct(SelectSeq(Tail(s), LAMBDA x : x # Head(s)))
         IN  <<Head(s)>> \o rest

\* COUNT(col) within the rows of d having the grouping key k : the number of
\* rows whose col is not null
CountIn(d, keys, k, col) ==
    Len(SelectSeq(d, LAMBDA r : SelectRow(r, keys) = k /\ r[col] # Null))

\* GROUP BY keys with COUNT(col) AS out ; null is a grouping key like another
GroupCount(d, keys, col, out) ==
    LET ks == Distinct(Select(d, keys))
    IN  [i \in 1..Len(ks) |->
            Merge(ks[i], [c \in {out} |-> Some(CountIn(d, keys, ks[i], col))])]

\* MAX(col) : the greatest non-null value, null when there is none
SqlMax(d, col) ==
    LET vals == {r[col][1] : r \in {x \in Range(d) : x[col] # Null}}
    IN  IF vals = {} THEN Null
        ELSE Some(CHOOSE x \in vals : \A y \in vals : x >= y)

RECURSIVE SumSeq(_)
SumSeq(s) == IF s = <<>> THEN 0 ELSE Head(s) + SumSeq(Tail(s))

RECURSIVE GCD(_, _)
GCD(a, b) == IF b = 0 THEN a ELSE GCD(b, a % b)

\* AVG(col) of a group : the sum of the non-null values over their number,
\* kept as a fraction in lowest terms; null when the group has none
SqlAvg(rows, col) ==
    LET vals == [i \in 1..Len(rows) |-> rows[i][col][1]]
        s == SumSeq(vals)
        n == Len(vals)
        g == GCD(s, n)
    IN  IF n = 0 THEN Null ELSE Some([num |-> s \div g, den |-> n \div g])

\* ORDER BY col DESC LIMIT 1 : one row with the greatest value; which one
\* among equals is not determined.  The set of the possible results.
OrderByDescLimit1(d, col) ==
    IF d = <<>> THEN {<<>>}
    ELSE {<<r>> : r \in {x \in Range(d) :
                     \A y \in Range(d) : x[col][1] >= y[col][1]}}

\* ROW_NUMBER() OVER (PARTITION BY part ORDER BY col DESC) <= k : within
\* each partition the k rows with the greatest values; the order among
\* equals is not determined.  The set of the possible results.
RowNumberAtMost(d, part, col, k) ==
    LET rows == Range(d)
        P(r) == {x \in rows : x[part] = r[part]}
        Valid(S) ==
            \A r \in rows :
                /\ Cardinality(S \cap P(r)) =
                       (IF Cardinality(P(r)) < k THEN Cardinality(P(r)) ELSE k)
                /\ r \in S => \A x \in P(r) \ S : r[col][1] >= x[col][1]
    IN  {SelectSeq(d, LAMBDA r : r \in S) : S \in {T \in SUBSET rows : Valid(T)}}

\* WHERE col = (SELECT MAX(col) FROM d)
WhereMax(d, col) ==
    Filter(d, [i \in 1..Len(d) |-> SqlEq(d[i][col], SqlMax(d, col))])

---------------------------------------------------------------------------
(* The queries, lines 167-301                                              *)

\* a variant that counts the rows of a group (COUNT(*)) instead of its
\* non-null airline names
Q1_CountStar(v) ==
    OrderByDescLimit1(
        GroupCount(v, {"airline_name"}, "id", "nb_flights"),
        "nb_flights")

\* lines 171-175, over the view df_active
Q1(v) ==
    OrderByDescLimit1(
        GroupCount(v, {"airline_name"}, "airline_name", "nb_flights"),
        "nb_flights")

\* a variant without the filter on equal continents
Q2Grouped_AllRoutes(active) ==
    LET g == GroupCount(active,
                 {"origin_airport_continent", "destination_airport_continent",
                  "airline_name"},
                 "airline_name", "count(airline_name)")
    IN  withColumnRenamed(
            Drop(withColumnRenamed(g, "count(airline_name)", "number_of_flights"),
                 {"origin_airport_continent"}),
            "destination_airport_continent", "continent")

\* lines 181-188 : what is registered as the view df_q2
Q2Grouped(active) ==
    LET g == GroupCount(active,
                 {"origin_airport_continent", "destination_airport_continent",
                  "airline_name"},
                 "airline_name", "count(airline_name)")
        f == Filter(g, [i \in 1..Len(g) |->
                 SqlEq(g[i]["origin_airport_continent"],
                       g[i]["destination_airport_continent"])])
    IN  withColumnRenamed(
            Drop(withColumnRenamed(f, "count(airline_name)", "number_of_flights"),
                 {"origin_airport_continent"}),
            "destination_airport_continent", "continent")

\* lines 194-202, over the view df_q2
Q2Ranked(v) == RowNumberAtMost(v, "continent", "number_of_flights", 1)

\* lines 204-205
Q2Named(ranked, continents) ==
    LET c == withColumnRenamed(continents, "continent", "df_continent.continent")
    IN  Drop(LeftJoin(ranked, c,
                      OnEq(ranked, "continent", c, "df_continent.continent"),
                      {"continent_name", "df_continent.continent"}),
             {"continent"})

\* lines 211-214, over the view df_active
Q3(v) == WhereMax(v, "distance")

\* a variant whose filter is distance >= 0
Q4Mean_NonNegative(v) ==
    LET f == Filter(v, [i \in 1..Len(v) |-> SqlGt(v[i]["distance"], -1)])
        ks == Distinct(Select(f, {"origin_airport_continent"}))
    IN  [i \in 1..Len(ks) |->
            Merge(ks[i], [distance_mean |->
                SqlAvg(SelectSeq(f, LAMBDA r :
                           SelectRow(r, {"origin_airport_continent"}) = ks[i]
                           /\ r["distance"] # Null),
                       "distance")])]

\* lines 222-227, over the view df
Q4Mean(v) ==
    LET f == Filter(v, [i \in 1..Len(v) |-> SqlGt(v[i]["distance"], 0)])
        ks == Distinct(Select(f, {"origin_airport_continent"}))
    IN  [i \in 1..Len(ks) |->
            Merge(ks[i], [distance_mean |->
                SqlAvg(SelectSeq(f, LAMBDA r :
                           SelectRow(r, {"origin_airport_continent"}) = ks[i]
                           /\ r["distance"] # Null),
                       "distance")])]

\* lines 229-230
Q4Named(mean, continents) ==
    LET c == withColumnRenamed(continents, "continent", "df_continent.continent")
    IN  Drop(LeftJoin(mean, c,
                      OnEq(mean, "origin_airport_continent", c,
                           "df_continent.continent"),
                      {"continent_name", "df_continent.continent"}),
             {"origin_airport_continent", "continent"})

\* lines 236-242
Q5(active) ==
    {withColumnRenamed(withColumnRenamed(t,
         "count(aircraft_name)", "number_of_flights"), "aircraft_name", "aircraft")
     : t \in OrderByDescLimit1(
                 GroupCount(active, {"aircraft_name"}, "aircraft_name",
                            "count(aircraft_name)"),
                 "count(aircraft_name)")}

\* lines 248-254 : what is registered as the view df_q6
Q6Grouped(d) ==
    LET g == GroupCount(d, {"airline_name", "aircraft_name"}, "airline_name",
                        "count(airline_name)")
        f1 == Filter(g, [i \in 1..Len(g) |-> isNotNull(g[i]["airline_name"])])
        f2 == Filter(f1, [i \in 1..Len(f1) |-> isNotNull(f1[i]["aircraft_name"])])
    IN  withColumnRenamed(f2, "count(airline_name)", "number_of_flights")

\* lines 258-266, over the view df_q6
Q6Ranked(v) == RowNumberAtMost(v, "airline_name", "number_of_flights", 3)

Abs(n) == IF n < 0 THEN -n ELSE n

\* lines 272-276 and 285, over the view df
df_qb_1(v) ==
    LET g == GroupCount(v, {"origin_airport_iata"}, "id", "nb_departures")
    IN  Filter(g, [i \in 1..Len(g) |-> isNotNull(g[i]["origin_airport_iata"])])

\* lines 278-282 and 286, over the view df
df_qb_2(v) ==
    LET g == GroupCount(v, {"destination_airport_iata"}, "id", "nb_arrivals")
    IN  Filter(g, [i \in 1..Len(g) |-> isNotNull(g[i]["destination_airport_iata"])])

\* line 288 : the join of the two counts
QBJoin(dep, arr) ==
    InnerJoin(dep, arr,
              OnEq(dep, "origin_airport_iata", arr, "destination_airport_iata"))

\* lines 288-293 : what is registered as the view df_qb
QBDifference(v) ==
    LET j == QBJoin(df_qb_1(v), df_qb_2(v))
        w == [i \in 1..Len(j) |-> Merge(j[i], [difference |->
                  Some(Abs(j[i]["nb_departures"][1] - j[i]["nb_arrivals"][1]))])]
    IN  withColumnRenamed(
            Drop(w, {"origin_airport_iata", "nb_departures", "nb_arrivals"}),
            "destination_airport_iata", "airport_iata")

\* lines 298-301, over the view df_qb
QB(v) == WhereMax(v, "difference")

---------------------------------------------------------------------------
(* The inputs: a flight snapshot and the three reference files             *)

MaxCleanFlights == 2
MaxAirportFlights == 1
MaxAirlineFlights == 1
MaxAnalyticsFlights == 4
MaxCellFlights == 1

Flight(o, d, ac, iata, icao, g) ==
    [origin_airport_iata |-> o, destination_airport_iata |-> d,
     aircraft_code |-> ac, airline_iata |-> iata, airline_icao |-> icao,
     on_ground |-> Some(g)]

Airport(iata, lat, lon, continent, name) ==
    [iata_code |-> iata, latitude_deg |-> lat, longitude_deg |-> lon,
     continent |-> continent, name |-> Some(name)]

\* airports.csv : AAA is listed twice, DDD has no latitude and lies on a
\* continent outside the continent table, two rows lack a key
AirportPool ==
    << Airport(Some("AAA"), Some("0"), Some("0"), Some("EU"), "Alpha"),
       Airport(Some("BBB"), Some("0"), Some("90"), Some("EU"), "Bravo"),
       Airport(Some("CCC"), Some("0"), Some("180"), Some("NA"), "Charlie"),
       Airport(Some("AAA"), Some("90"), Some("0"), Some("AS"), "Alpha Two"),
       Airport(Some("DDD"), Null, Some("0"), Some("AN"), "Delta"),
       Airport(Null, Some("0"), Some("0"), Some("EU"), "No Code"),
       Airport(Some("EEE"), Some("0"), Some("0"), Null, "Echo") >>

\* planes.dat
AircraftPool ==
    << [_c0 |-> Some("Boeing 737-800"), _c1 |-> Some("738"), _c2 |-> Some("B738")],
       [_c0 |-> Some("Airbus A320"), _c1 |-> Some("320"), _c2 |-> Some("A320")],
       [_c0 |-> Some("Unlisted"), _c1 |-> Some("000"), _c2 |-> Null] >>

Airline(n, name, iata, icao) ==
    [_c0 |-> Some(n), _c1 |-> Some(name), _c3 |-> iata, _c4 |-> icao]

\* airlines.dat : two airlines share the IATA code AF, one row has no code
AirlinePool ==
    << Airline(1, "Air France", Some("AF"), Some("AFR")),
       Airline(2, "Joon", Some("AF"), Some("JON")),
       Airline(3, "Lufthansa", Some("LH"), Some("DLH")),
       Airline(4, "No Codes", Null, Null),
       Airline(5, "KLM", Null, Some("KLM")) >>

\* the rows of pool whose index is in S, in the pool's order
Take(pool, S) ==
    LET F[i \in 0..Len(pool)] ==
            IF i = 0 THEN <<>>
            ELSE IF i \in S THEN Append(F[i - 1], pool[i]) ELSE F[i - 1]
    IN  F[Len(pool)]

\* A snapshot is a multiset of flights: the index sequences in ascending
\* order list each multiset of at most n flights of a pool once.
Multisets(size, n) ==
    UNION {{s \in [1..k -> 1..size] : \A i \in 1..(k - 1) : s[i] <= s[i + 1]}
           : k \in 0..n}

\* the flights of pool the indexes name, each with its own identifier
Snapshot(pool, s) == [k \in 1..Len(s) |-> Merge([id |-> Some(k)], pool[s[k]])]

AirportCodes == <<Some("BBB"), Some("NaN"), Some("N/A"), Null>>

\* flights that differ in how usable their airport codes are
CleanPool ==
    [k \in 1..(Len(AirportCodes) * Len(AirportCodes)) |->
        Flight(AirportCodes[((k - 1) \div Len(AirportCodes)) + 1],
               AirportCodes[((k - 1) % Len(AirportCodes)) + 1],
               Some("B738"), Some("LH"), Some("DLH"), 0)]

\* flights that differ in how their airports match the airport file
AirportFlightPool ==
    << Flight(Some("AAA"), Some("BBB"), Some("B738"), Some("LH"), Some("DLH"), 0),
       Flight(Some("BBB"), Some("AAA"), Some("B738"), Some("LH"), Some("DLH"), 0),
       Flight(Some("ZZZ"), Some("CCC"), Some("B738"), Some("LH"), Some("DLH"), 0),
       Flight(Some("CCC"), Some("DDD"), Some("B738"), Some("LH"), Some("DLH"), 0),
       Flight(Some("EEE"), Some("CCC"), Some("B738"), Some("LH"), Some("DLH"), 1) >>

\* flights that differ in how they match the aircraft and airline files
AirlineFlightPool ==
    << Flight(Some("BBB"), Some("CCC"), Some("B738"), Some("AF"), Some("AFR"), 0),
       Flight(Some("BBB"), Some("CCC"), Some("A320"), Some("AF"), Null, 0),
       Flight(Some("BBB"), Some("CCC"), Some("B738"), Null, Some("DLH"), 0),
       Flight(Some("BBB"), Some("CCC"), Null, Null, Null, 0),
       Flight(Some("BBB"), Some("CCC"), Some("ZZZZ"), Some("XX"), Some("XXX"), 1),
       Flight(Some("BBB"), Some("CCC"), Some("A320"), Some("LH"), Some("AFR"), 0) >>

\* flights that differ in what the queries aggregate
AnalyticsPool ==
    << Flight(Some("BBB"), Some("CCC"), Some("B738"), Some("LH"), Some("DLH"), 0),
       Flight(Some("BBB"), Some("BBB"), Some("B738"), Some("LH"), Some("DLH"), 0),
       Flight(Some("AAA"), Some("BBB"), Some("A320"), Some("AF"), Some("AFR"), 0),
       Flight(Some("CCC"), Some("CCC"), Some("A320"), Null, Some("DLH"), 0),
       Flight(Some("BBB"), Some("ZZZ"), Some("B738"), Some("XX"), Some("XXX"), 0),
       Flight(Some("DDD"), Some("DDD"), Null, Null, Null, 0),
       Flight(Some("BBB"), Some("CCC"), Some("B738"), Some("LH"), Some("DLH"), 1),
       Flight(Some("CCC"), Some("BBB"), Some("A320"), Some("AF"), Null, 1),
       Flight(Some("CCC"), Some("BBB"), Some("ZZZZ"), Null, Some("KLM"), 0) >>

\* Airport X (BBB) has 5 departures and 2 arrivals, airport Y (CCC) has
\* 2 departures and 2 arrivals.
ScenarioImbalance ==
    LET f(o, d) == Flight(Some(o), Some(d), Some("B738"), Some("LH"), Some("DLH"), 0)
    IN  << f("BBB", "CCC"), f("BBB", "CCC"), f("CCC", "BBB"), f("CCC", "BBB"),
           f("BBB", "DDD"), f("BBB", "EEE"), f("BBB", "ZZZ") >>

\* Two active flights of one airline within one continent.
ScenarioRegional ==
    LET f == Flight(Some("BBB"), Some("BBB"), Some("B738"), Some("LH"), Some("DLH"), 0)
    IN  <<f, f>>

Scenarios == {ScenarioImbalance, ScenarioRegional}

AllOf(pool) == 1..Len(pool)

InitialInputs ==
    \/ /\ flights \in {Snapshot(CleanPool, s) :
                         s \in Multisets(Len(CleanPool), MaxCleanFlights)}
       /\ airports_csv = AirportPool
       /\ planes_dat = AircraftPool
       /\ airlines_dat = AirlinePool
    \/ /\ flights \in {Snapshot(AirportFlightPool, s) :
                         s \in Multisets(Len(AirportFlightPool), MaxAirportFlights)}
       /\ airports_csv \in {Take(AirportPool, S) : S \in SUBSET AllOf(AirportPool)}
       /\ planes_dat = AircraftPool
       /\ airlines_dat = AirlinePool
    \/ /\ flights \in {Snapshot(AirlineFlightPool, s) :
                         s \in Multisets(Len(AirlineFlightPool), MaxAirlineFlights)}
       /\ airports_csv = AirportPool
       /\ \E S \in SUBSET AllOf(AircraftPool), T \in SUBSET AllOf(AirlinePool) :
            /\ S = AllOf(AircraftPool) \/ T = AllOf(AirlinePool)
            /\ planes_dat = Take(AircraftPool, S)
            /\ airlines_dat = Take(AirlinePool, T)
    \/ /\ flights \in {Snapshot(AnalyticsPool, s) :
                         s \in Multisets(Len(AnalyticsPool), MaxAnalyticsFlights)}
       /\ airports_csv = AirportPool
       /\ planes_dat = AircraftPool
       /\ airlines_dat = AirlinePool
    \/ /\ flights \in {Snapshot(f, [k \in 1..Len(f) |-> k]) : f \in Scenarios}
       /\ airports_csv = Take(AirportPool, {1, 2, 3})
       /\ planes_dat = AircraftPool
       /\ airlines_dat = AirlinePool

CellInputs ==
    /\ \/ flights \in {Snapshot(AnalyticsPool, s) :
                         s \in Multisets(Len(AnalyticsPool), MaxCellFlights)}
       \/ flights \in {Snapshot(f, [k \in 1..Len(f) |-> k]) : f \in Scenarios}
    /\ airports_csv = Take(AirportPool, {1, 2, 3})
    /\ planes_dat = AircraftPool
    /\ airlines_dat = AirlinePool

NothingComputed ==
    /\ pc = "start"
    /\ df = <<>>
    /\ df_active = <<>>
    /\ df_continent = <<>>
    /\ views = <<>>
    /\ done = {}
    /\ raised = {}
    /\ df_q1 = <<>> /\ df_q2 = <<>> /\ df_q3 = <<>> /\ df_q4 = <<>>
    /\ df_q5 = <<>> /\ df_q6 = <<>> /\ df_qb = <<>>

Init == InitialInputs /\ NothingComputed

InitCells == CellInputs /\ NothingComputed

---------------------------------------------------------------------------
(* The script, lines 140-163                                               *)

\* line 140 : df = get_and_write_flights()
GetAndWriteFlights ==
    /\ pc = "start"
    /\ df' = flights
    /\ pc' = "fetched"
    /\ UNCHANGED <<inputs, df_active, df_continent, views, done, raised, results>>

\* line 142 : df = clean_dataframe(df)
CleanDataframe ==
    /\ pc = "fetched"
    /\ df' = clean_dataframe(df)
    /\ pc' = "cleaned"
    /\ UNCHANGED <<inputs, df_active, df_continent, views, done, raised, results>>

\* line 144 : df = add_distance_dataframe(df)
AddDistanceDataframe ==
    /\ pc = "cleaned"
    /\ df' = add_distance_dataframe(df, airports_csv)
    /\ pc' = "distance"
    /\ UNCHANGED <<inputs, df_active, df_continent, views, done, raised, results>>

\* line 145 : df = add_aircrafts_dataframe(df)
AddAircraftsDataframe ==
    /\ pc = "distance"
    /\ df' = add_aircrafts_dataframe(df, planes_dat)
    /\ pc' = "aircrafts"
    /\ UNCHANGED <<inputs, df_active, df_continent, views, done, raised, results>>

\* line 146 : df = add_airlines_dataframe(df)
AddAirlinesDataframe ==
    /\ pc = "aircrafts"
    /\ df' = add_airlines_dataframe(df, airlines_dat)
    /\ pc' = "airlines"
    /\ UNCHANGED <<inputs, df_active, df_continent, views, done, raised, results>>

\* line 148 : df_active = get_active_flights(df)
GetActiveFlights ==
    /\ pc = "airlines"
    /\ df_active' = get_active_flights(df)
    /\ pc' = "active"
    /\ UNCHANGED <<inputs, df, df_continent, views, done, raised, results>>

\* lines 152-163 : df_continent
CreateContinent ==
    /\ pc = "active"
    /\ df_continent' = ContinentData
    /\ pc' = "queries"
    /\ UNCHANGED <<inputs, df, df_active, views, done, raised, results>>

---------------------------------------------------------------------------
(* The query cells, lines 167-301.  spark.sql resolves the views a query   *)
(* names when it is called: a name that is not registered raises an        *)
(* AnalysisException and the cell's result is not assigned.                *)

Cells == {"Q1", "Q2", "Q3", "Q4", "Q5", "Q6", "QB"}

\* createOrReplaceTempView(name)
Registered(v, name, d) ==
    [n \in DOMAIN v \cup {name} |-> IF n = name THEN d ELSE v[n]]

Ran(q) == pc = "queries" /\ q \notin done /\ done' = done \cup {q}

Q1Cell ==
    /\ Ran("Q1")
    /\ views' = Registered(views, "df_active", df_active)
    /\ df_q1' \in Q1(views'["df_active"])
    /\ UNCHANGED <<inputs, pc, df, df_active, df_continent, raised,
                   df_q2, df_q3, df_q4, df_q5, df_q6, df_qb>>

Q2Cell ==
    /\ Ran("Q2")
    /\ views' = Registered(views, "df_q2", Q2Grouped(df_active))
    /\ \E ranked \in Q2Ranked(views'["df_q2"]) :
           df_q2' = Q2Named(ranked, df_continent)
    /\ UNCHANGED <<inputs, pc, df, df_active, df_continent, raised,
                   df_q1, df_q3, df_q4, df_q5, df_q6, df_qb>>

Q3Cell ==
    /\ Ran("Q3")
    /\ IF "df_active" \in DOMAIN views
       THEN df_q3' = Q3(views["df_active"]) /\ UNCHANGED raised
       ELSE raised' = raised \cup {"Q3"} /\ UNCHANGED df_q3
    /\ UNCHANGED <<inputs, pc, df, df_active, df_continent, views,
                   df_q1, df_q2, df_q4, df_q5, df_q6, df_qb>>

Q4Cell ==
    /\ Ran("Q4")
    /\ views' = Registered(views, "df", df)
    /\ df_q4' = Q4Named(Q4Mean(views'["df"]), df_continent)
    /\ UNCHANGED <<inputs, pc, df, df_active, df_continent, raised,
                   df_q1, df_q2, df_q3, df_q5, df_q6, df_qb>>

Q5Cell ==
    /\ Ran("Q5")
    /\ df_q5' \in Q5(df_active)
    /\ UNCHANGED <<inputs, pc, df, df_active, df_continent, views, raised,
                   df_q1, df_q2, df_q3, df_q4, df_q6, df_qb>>

Q6Cell ==
    /\ Ran("Q6")
    /\ views' = Registered(views, "df_q6", Q6Grouped(df))
    /\ df_q6' \in Q6Ranked(views'["df_q6"])
    /\ UNCHANGED <<inputs, pc, df, df_active, df_continent, raised,
                   df_q1, df_q2, df_q3, df_q4, df_q5, df_qb>>

QBCell ==
    /\ Ran("QB")
    /\ IF "df" \in DOMAIN views
       THEN /\ views' = Registered(views, "df_qb", QBDifference(views["df"]))
            /\ df_qb' = QB(views'["df_qb"])
            /\ UNCHANGED raised
       ELSE /\ raised' = raised \cup {"QB"}
            /\ UNCHANGED <<views, df_qb>>
    /\ UNCHANGED <<inputs, pc, df, df_active, df_continent,
                   df_q1, df_q2, df_q3, df_q4, df_q5, df_q6>>

\* lines 307-311 : spark.catalog.dropTempView of the five views
DropViews ==
    /\ pc = "queries"
    /\ done = Cells
    /\ views' = <<>>
    /\ pc' = "dropped"
    /\ UNCHANGED <<inputs, df, df_active, df_continent, done, raised, results>>

\* lines 314-339 : the results are shown
Show ==
    /\ pc = "dropped"
    /\ pc' = "shown"
    /\ UNCHANGED <<inputs, df, df_active, df_continent, views, done, raised, results>>

Enrich ==
    \/ GetAndWriteFlights
    \/ CleanDataframe
    \/ AddDistanceDataframe
    \/ AddAircraftsDataframe
    \/ AddAirlinesDataframe
    \/ GetActiveFlights
    \/ CreateContinent

\* The script runs its cells from top to bottom.
Next ==
    \/ Enrich
    \/ (done = {} /\ Q1Cell)
    \/ (done = {"Q1"} /\ Q2Cell)
    \/ (done = {"Q1", "Q2"} /\ Q3Cell)
    \/ (done = {"Q1", "Q2", "Q3"} /\ Q4Cell)
    \/ (done = {"Q1", "Q2", "Q3", "Q4"} /\ Q5Cell)
    \/ (done = {"Q1", "Q2", "Q3", "Q4", "Q5"} /\ Q6Cell)
    \/ (done = {"Q1", "Q2", "Q3", "Q4", "Q5", "Q6"} /\ QBCell)
    \/ DropViews
    \/ Show

Spec == Init /\ [][Next]_vars

\* The query cells run in any order, once df, df_active and df_continent
\* exist.
NextCells ==
    \/ Enrich
    \/ Q1Cell \/ Q2Cell \/ Q3Cell \/ Q4Cell \/ Q5Cell \/ Q6Cell \/ QBCell
    \/ DropViews
    \/ Show

SpecCells == InitCells /\ [][NextCells]_vars

---------------------------------------------------------------------------
(* Properties                                                              *)

Usable(code) == code # Null /\ code[1] # "NaN" /\ code[1] # "N/A"

\* the flights of the snapshot that have two usable airport codes
UsableFlights ==
    SelectSeq(flights, LAMBDA f : Usable(f["origin_airport_iata"])
                                  /\ Usable(f["destination_airport_iata"]))

Known(r, c) == r[c] # Null

IsActive(r) == r["on_ground"] = Some(0)

\* the display name the continent table gives a continent code, if any
NameOf(c) ==
    IF \E x \in Range(ContinentData) : x["continent"] = c
    THEN (CHOOSE x \in Range(ContinentData) : x["continent"] = c)["continent_name"]
    ELSE Null

\* C1: the seven queries are independent: whichever query cells have been
\* run so far, in whatever order, each of them ended without an error and
\* holds a result the query yields on the enriched dataset and its active
\* subset.
QueriesIndependent ==
    /\ raised = {}
    /\ "Q1" \in done => df_q1 \in Q1(df_active)
    /\ "Q2" \in done =>
           df_q2 \in {Q2Named(t, df_continent) : t \in Q2Ranked(Q2Grouped(df_active))}
    /\ "Q3" \in done => df_q3 = Q3(df_active)
    /\ "Q4" \in done => df_q4 = Q4Named(Q4Mean(df), df_continent)
    /\ "Q5" \in done => df_q5 \in Q5(df_active)
    /\ "Q6" \in done => df_q6 \in Q6Ranked(Q6Grouped(df))
    /\ "QB" \in done => df_qb = QB(QBDifference(df))

\* C2: clean_dataframe is a pure filter: its output is exactly the input
\* records whose origin and destination codes are both present and both
\* different from "NaN" and "N/A", each unchanged, and never more records
\* than the input.
CleanIsPureFilter ==
    pc = "cleaned" => df = UsableFlights /\ Len(df) <= Len(flights)

\* C2 witness: a snapshot was cleaned in which one flight survives, one has
\* an absent code and one carries a placeholder.
CleanDroppedAndKept ==
    /\ pc = "cleaned"
    /\ df # <<>>
    /\ \E f \in Range(flights) :
           f["origin_airport_iata"] = Null \/ f["destination_airport_iata"] = Null
    /\ \E f \in Range(flights) :
           f["origin_airport_iata"] = Some("N/A")
           \/ f["destination_airport_iata"] = Some("NaN")

\* C3: after the destination join and after the origin join every cleaned
\* flight appears exactly once: the row count is the cleaned row count,
\* whatever the normalised airport catalog.
AirportJoinsKeepRowCount ==
    /\ pc = "cleaned" =>
           /\ Len(JoinDestination(df, airports_csv)) = Len(df)
           /\ Len(JoinOrigin(JoinDestination(df, airports_csv), airports_csv)) = Len(df)
    /\ pc = "distance" => Len(df) = Len(UsableFlights)

\* C4: after the whole enrichment every cleaned flight is in the enriched
\* dataset with all its original attributes and their values, its own
\* airline IATA and ICAO codes included.
EnrichmentKeepsOriginalAttributes ==
    pc = "airlines" =>
        \A f \in Range(UsableFlights) :
            \E r \in Range(df) :
                \A c \in DOMAIN f : c \in DOMAIN r /\ r[c] = f[c]

HasAllCoordinates(r) ==
    /\ Known(r, "origin_latitude_deg") /\ Known(r, "origin_longitude_deg")
    /\ Known(r, "destination_latitude_deg") /\ Known(r, "destination_longitude_deg")

\* C5: in the enriched dataset the distance is exactly -1 whenever one of
\* the four coordinates is unknown (not null, not 0), and is not -1 when
\* all four are known.
DistanceSentinel ==
    pc = "distance" =>
        \A r \in Range(df) :
            IF HasAllCoordinates(r) THEN r["distance"] # Some(-1) /\ r["distance"] # Null
            ELSE r["distance"] = Some(-1)

\* C6: when the active set is not empty Q3 returns a non-empty result: the
\* active rows whose distance is the greatest distance of the active set,
\* also when every active flight lacks coordinates.
Q3ReturnsLongest ==
    ("Q3" \in done /\ df_active # <<>>) =>
        LET Longest(r) ==
                \A x \in Range(df_active) :
                    /\ r["distance"] # Null
                    /\ x["distance"] # Null => r["distance"][1] >= x["distance"][1]
        IN  /\ df_q3 # <<>>
            /\ df_q3 = SelectSeq(df_active, Longest)

Departures(a) ==
    Cardinality({i \in 1..Len(df) : df[i]["origin_airport_iata"] = Some(a)})
Arrivals(a) ==
    Cardinality({i \in 1..Len(df) : df[i]["destination_airport_iata"] = Some(a)})
Imbalance(a) == Abs(Departures(a) - Arrivals(a))
AirportsOf(d) ==
    {r["origin_airport_iata"][1] : r \in Range(d)}
    \cup {r["destination_airport_iata"][1] : r \in Range(d)}

\* C7: when the enriched set is not empty QB returns a non-empty result:
\* exactly the airports whose |departures - arrivals| is the greatest over
\* all airports, each with that difference.
QBReturnsGreatestImbalance ==
    ("QB" \in done /\ df # <<>>) =>
        LET top == {a \in AirportsOf(df) :
                       \A b \in AirportsOf(df) : Imbalance(a) >= Imbalance(b)}
        IN  /\ df_qb # <<>>
            /\ {r["airport_iata"][1] : r \in Range(df_qb)} = top
            /\ \A r \in Range(df_qb) :
                   r["difference"] = Some(Imbalance(r["airport_iata"][1]))

PositiveDistance(r) == r["distance"] # Null /\ r["distance"][1] > 0

\* C8: Q4 leaves every row with distance <= 0 or unknown out of the mean:
\* the result has one row for each origin continent that has a row with
\* distance > 0, none for the other continents, and the row's mean is the
\* arithmetic mean of the distances of exactly those rows.
Q4MeansPositiveDistances ==
    "Q4" \in done =>
        LET pos == SelectSeq(df, PositiveDistance)
            conts == {r["origin_airport_continent"] : r \in Range(pos)}
            Of(c) == SelectSeq(pos, LAMBDA r : r["origin_airport_continent"] = c)
            Total(c) == SumSeq([i \in 1..Len(Of(c)) |-> Of(c)[i]["distance"][1]])
        IN  /\ Len(df_q4) = Cardinality(conts)
            /\ \A c \in conts :
                   \E row \in Range(df_q4) :
                       /\ row["continent_name"] = NameOf(c)
                       /\ row["distance_mean"] # Null
                       /\ row["distance_mean"][1].num * Len(Of(c))
                              = row["distance_mean"][1].den * Total(c)

\* C8 witness: Q4 ran over a dataset with a zero-length flight, a flight of
\* unknown distance, a continent with a mean and a continent whose flights
\* all have distance <= 0.
Q4SawExcludedRows ==
    /\ "Q4" \in done
    /\ df_q4 # <<>>
    /\ \E r \in Range(df) : r["distance"] = Some(0)
    /\ \E r \in Range(df) : r["distance"] = Null
    /\ \E r \in Range(df) :
           /\ r["origin_airport_continent"] # Null
           /\ \A x \in Range(df) :
                  x["origin_airport_continent"] = r["origin_airport_continent"]
                      => ~PositiveDistance(x)

Regional(r) ==
    /\ IsActive(r)
    /\ r["origin_airport_continent"] # Null
    /\ r["origin_airport_continent"] = r["destination_airport_continent"]

ActiveOf(a) ==
    Cardinality({i \in 1..Len(df) : IsActive(df[i]) /\ df[i]["airline_name"] = a})
ActiveNames == {r["airline_name"] : r \in {x \in Range(df) : IsActive(x)}} \ {Null}

\* C10 as stated: when the active set is not empty Q1 returns exactly one
\* row, which names an airline, with nb_flights the number of active
\* flights carrying that name and not less than any airline's; when the
\* active set is empty Q1 returns no row.
Q1NamesBusiestAirline ==
    "Q1" \in done =>
        IF \A r \in Range(df) : ~IsActive(r) THEN df_q1 = <<>>
        ELSE /\ Len(df_q1) = 1
             /\ df_q1[1]["airline_name"] # Null
             /\ df_q1[1]["nb_flights"] = Some(ActiveOf(df_q1[1]["airline_name"]))
             /\ \A a \in ActiveNames : df_q1[1]["nb_flights"][1] >= ActiveOf(a)

\* C10 amended: when the active set is not empty Q1 returns exactly one
\* row; if some active flight has an airline name the row names an airline,
\* with nb_flights the number of active flights carrying that name and not
\* less than any airline's; if no active flight has an airline name the
\* row's airline name is null and its nb_flights is 0; flights on the
\* ground are never counted; when the active set is empty Q1 returns no row.
Q1BusiestAirlineOrNull ==
    "Q1" \in done =>
        IF \A r \in Range(df) : ~IsActive(r) THEN df_q1 = <<>>
        ELSE /\ Len(df_q1) = 1
             /\ \A a \in ActiveNames : df_q1[1]["nb_flights"][1] >= ActiveOf(a)
             /\ IF ActiveNames = {}
                THEN df_q1[1]["airline_name"] = Null /\ df_q1[1]["nb_flights"] = Some(0)
                ELSE /\ df_q1[1]["airline_name"] # Null
                     /\ df_q1[1]["nb_flights"] = Some(ActiveOf(df_q1[1]["airline_name"]))

\* C10 witness: Q1 ran and returned an airline with two active flights
\* while the dataset also held a flight on the ground and an active flight
\* of another airline.
Q1CountedTwoActive ==
    /\ "Q1" \in done
    /\ df_q1 # <<>>
    /\ df_q1[1]["nb_flights"] = Some(2)
    /\ df_q1[1]["airline_name"] # Null
    /\ \E r \in Range(df) : ~IsActive(r)
    /\ \E r \in Range(df) :
           IsActive(r) /\ r["airline_name"] \notin {Null, df_q1[1]["airline_name"]}

=============================================================================
